---- MODULE Spec2Model ----
(***************************************************************************)
(* The point-cloud Globe renderer of promptrefine                          *)
(* (frontend/src/components/Globe.jsx, the ambient variant, and the        *)
(* interactive variant that ends frontend/src/components/globe.jsx).       *)
(*                                                                         *)
(* Numbers.  The JavaScript source computes in floating point; the model   *)
(* computes in fixed point:                                                *)
(*   lengths   in tenths of a pixel        (Sub steps per pixel),          *)
(*   angles    in thousandths of a radian  (Milli per radian),             *)
(*   sin, cos, pulse and the random cube root in thousandths (Milli).      *)
(* Sin is Bhaskara's rational approximation, exact at the multiples of a   *)
(* quarter turn.  Divisions round down.                                    *)
(*                                                                         *)
(* React.  A component instance is rendered, its effects run (Mount), a    *)
(* state update queued by an effect is committed by a later render         *)
(* (Commit), an update made in a window event handler is committed before  *)
(* the handler's task ends (Resize), and the effect cleanups run at        *)
(* Unmount.  An effect whose dependency changed identity runs again after  *)
(* the commit; setDimensions always stores a fresh object.                 *)
(***************************************************************************)
EXTENDS Integers, Sequences, FiniteSets

VARIABLES
    variant,        \* "ambient" (Globe.jsx) or "interactive" (globe.jsx 100-210)
    maxWidth,       \* prop, pixels
    maxHeight,      \* prop, pixels
    phase,          \* "rendered" (first render done, effects not yet run),
                    \* "mounted", "unmounted"
    dimensions,     \* the useState value {width, height}, pixels
    queued,         \* the setDimensions update waiting for its render (0 or 1)
    containerWidth, \* containerRef.current.getBoundingClientRect().width
    skipped,        \* the last run of the draw effect returned at its guards
    loops,          \* one record per run of the draw effect that got past the
                    \* guards: the closure (width, height, RADIUS, points, t,
                    \* rotY, ...) and whether its rAF callback is pending
    frameNo,        \* display frames delivered by the browser so far
    hostErrors,     \* exceptions that left draw() uncaught
    listener,       \* updateSize is registered for the window's "resize" event
    peer,           \* <<>>, or <<q>> with q the state of a second Globe
                    \* instance rendered earlier in the same React root
    probe           \* one application of a pure function of the closure to
                    \* given arguments: [fn |-> "none"] when there is none

(* The rest of the page: the History list (frontend/src/History.jsx), the
   Rating stars (frontend/src/Rating.jsx) and the App that sends the
   refine and enhance requests (frontend/src/App.jsx and its later
   versions).  Each is idle while another component is followed. *)
VARIABLES
    stored,         \* localStorage "prompt_history": what getItem returns
    items,          \* History: the useState value items
    historyPhase    \* History: "idle", "rendered" (first render done),
                    \* "shown" (rendered after the effect) or "crashed"

historyVars == <<stored, items, historyPhase>>

VARIABLES
    promptId,       \* Rating: the promptId prop
    rating,         \* Rating: useState rating, 0 for null (no star lit)
    hasVoted,       \* Rating: useState hasVoted
    voteLoading,    \* Rating: useState loading
    ratingMounted,  \* whether a Rating component is rendered
    instance,       \* how many Rating components were mounted so far
    localVotes,     \* localStorage rated_<id> and rating_<id>, per id
    posts,          \* the POST /feedback requests in flight
    feedback,       \* the server: votes recorded per prompt id
    alerts          \* how often alert("Failed to submit rating...") was shown

ratingVars == <<promptId, rating, hasVoted, voteLoading, ratingMounted,
                instance, localVotes, posts, feedback, alerts>>

VARIABLES
    appVariant,             \* "cancel": the App with AbortControllers
                            \* (part_003); "plain": frontend/src/App.jsx
    text,                   \* App: useState text
    res,                    \* App: useState res (NoRes for null)
    enhanced,               \* App: useState enhanced (NoEnhanced for null)
    loading,                \* App: useState loading
    enhancing,              \* App: useState enhancing
    refineError,            \* App: useState refineError / error
    enhanceError,           \* App: useState enhanceError
    refineControllerRef,    \* id of the request the controller in
                            \* refineControllerRef.current belongs to, 0: null
    enhanceControllerRef,   \* the same for enhanceControllerRef.current
    refines,                \* POST /refine requests in flight
    enhances,               \* POST /enhance requests in flight
    nextId,                 \* id of the next POST /refine
    nextEnhanceId           \* id of the next POST /enhance

appVars == <<appVariant, text, res, enhanced, loading, enhancing, refineError,
             enhanceError, refineControllerRef, enhanceControllerRef, refines,
             enhances, nextId, nextEnhanceId>>

pageVars == <<historyVars, ratingVars, appVars>>

globeVars == <<variant, maxWidth, maxHeight, phase, dimensions, queued,
               containerWidth, skipped, loops, frameNo, hostErrors, listener,
               peer, probe>>

vars == <<globeVars, pageVars>>

----------------------------------------------------------------------------
(* Bounds of the model *)

\* display frames delivered in one behaviour
MaxFrames == 2
\* runs of the draw effect that start a loop, in one behaviour
MaxLoops == 3
\* runs of the draw effect of the second instance that start a loop
PeerMaxLoops == 2
\* display frames delivered to the second instance
PeerMaxFrames == 1
\* points kept per loop; the source generates 900 (Globe.jsx:30) or
\* 1000 (globe.jsx:128) independent points, the model keeps this many
POINTS == 1

(* Units *)
Sub == 10
Milli == 1000

(* Inputs *)
Variants == {"ambient", "interactive"}
\* values of the maxWidth and maxHeight props (History.jsx passes 600)
MaxDims == {600, 1200}
\* rendered widths of the container: collapsed, and wider than the smaller prop
ContainerWidths == {0, 1135}
\* Math.cbrt(Math.random()), in thousandths: 0 for a draw of 0, and 1000 for
\* the largest double below 1, whose cube root rounds to 1.0
CbrtDraws == {0, 1000}
\* Math.acos(2 * Math.random() - 1): pi (a draw of 0)
ThetaDraws == {3142}
\* 2 * Math.PI * Math.random(): 0 (a draw of 0)
PhiDraws == {0}

----------------------------------------------------------------------------
(* Arithmetic *)

\* F(v), with v evaluated once
Let(v, F(_)) == CHOOSE y \in {F(x) : x \in {v}} : TRUE

Min(a, b) == IF a <= b THEN a ELSE b

\* floor of the square root, by bisection on lo..hi
RECURSIVE IsqrtIn(_, _, _)
IsqrtIn(n, lo, hi) ==
    IF lo >= hi THEN lo
    ELSE LET mid == (lo + hi + 1) \div 2
         IN  IF mid * mid <= n THEN IsqrtIn(n, mid, hi)
                               ELSE IsqrtIn(n, lo, mid - 1)

Isqrt(n) == IsqrtIn(n, 0, 8191)

\* Math.PI in thousandths of a radian; a quarter turn is PiMilli \div 2
PiMilli == 3142

\* sin on [0, pi], x in thousandths of a radian, result in thousandths:
\* 16 x (pi - x) / (5 pi^2 - 4 x (pi - x))
SinHalf(x) ==
    LET p == x * (PiMilli - x)
    IN  (16 * p) \div ((5 * PiMilli * PiMilli - 4 * p) \div Milli)

\* Math.sin
Sin(a) ==
    LET r == a % (2 * PiMilli)
    IN  IF r < PiMilli THEN SinHalf(r) ELSE -SinHalf(r - PiMilli)

\* Math.cos
Cos(a) == Sin(a + PiMilli \div 2)

----------------------------------------------------------------------------
(* Globe.jsx 11-16: updateSize *)

Min3(a, b, c) == Min(a, Min(b, c))

\* updateSize with each side clamped by its own limit
updateSizePerSide(w) ==
    [width |-> Min(w, maxWidth), height |-> Min(w, maxHeight)]

\* updateSize with maxHeight left out of the minimum
updateSizeNoMaxHeight(w) ==
    LET size == Min(w, maxWidth)
    IN  [width |-> size, height |-> size]

\* the object updateSize passes to setDimensions
updateSize(w) ==
    LET size == Min3(w, maxWidth, maxHeight)
    IN  [width |-> size, height |-> size]

\* the cleanup of the resize effect leaving the listener registered
resizeCleanupKeeps(registered) == registered

\* Globe.jsx 19: window.removeEventListener("resize", updateSize); the
\* result says whether updateSize is registered afterwards
resizeCleanup(registered) == FALSE

----------------------------------------------------------------------------
(* Globe.jsx 29-48: the closure of one run of the draw effect *)

depth == 500

\* RADIUS = Math.min(width, height) * 0.44, in tenths of a pixel
Radius(d) == (Min(d.width, d.height) * Sub * 44) \div 100

\* GenPoint with the radial distance drawn from the diameter
GenPointDiameter(R, c, theta, phi) ==
    LET r == (2 * R * c) \div Milli
    IN  [x |-> (((r * Sin(theta)) \div Milli) * Cos(phi)) \div Milli,
         y |-> (((r * Sin(theta)) \div Milli) * Sin(phi)) \div Milli,
         z |-> (r * Cos(theta)) \div Milli]

\* GenPoint with the azimuth factor left out of x and the polar factor out of y
GenPointBox(R, c, theta, phi) ==
    LET r == (R * c) \div Milli
    IN  [x |-> (r * Sin(theta)) \div Milli,
         y |-> (r * Sin(phi)) \div Milli,
         z |-> (r * Cos(theta)) \div Milli]

\* one generated point, in tenths of a pixel
GenPoint(R, c, theta, phi) ==
    LET r == (R * c) \div Milli
    IN  [x |-> (((r * Sin(theta)) \div Milli) * Cos(phi)) \div Milli,
         y |-> (((r * Sin(theta)) \div Milli) * Sin(phi)) \div Milli,
         z |-> (r * Cos(theta)) \div Milli]

\* the points one generation can produce for radius R
GenPoints(R) ==
    {GenPoint(R, c, th, ph) : c \in CbrtDraws, th \in ThetaDraws, ph \in PhiDraws}

\* the point arrays one generation can produce
PointSets(R) == [1..POINTS -> GenPoints(R)]

baseRotY == 2

\* a / b rounded down, for any b # 0
Div(a, b) == IF b > 0 THEN a \div b ELSE (-a) \div (-b)

\* project with the camera distance left out of the denominator
projectNoDepth(p, rotY, rotX, width, height) ==
    LET cosY == Cos(rotY)
        sinY == Sin(rotY)
        x == (p.x * cosY + p.z * sinY) \div Milli
        z == (p.z * cosY - p.x * sinY) \div Milli
        y == p.y
        cosX == Cos(rotX)
        sinX == Sin(rotX)
        y2 == (y * cosX - z * sinX) \div Milli
        z2 == (z * cosX + y * sinX) \div Milli
        num == depth * Sub
        den == z2
    IN  [px |-> IF den = 0 THEN 0 ELSE (width * Sub) \div 2 + Div(x * num, den),
         py |-> IF den = 0 THEN 0 ELSE (height * Sub) \div 2 + Div(y2 * num, den),
         scale |-> [num |-> num, den |-> den],
         z |-> z2]

\* project turning about the horizontal axis first and the vertical axis second
projectXFirst(p, rotY, rotX, width, height) ==
    LET cosX == Cos(rotX)
        sinX == Sin(rotX)
        y == (p.y * cosX - p.z * sinX) \div Milli
        z == (p.z * cosX + p.y * sinX) \div Milli
        cosY == Cos(rotY)
        sinY == Sin(rotY)
        x == (p.x * cosY + z * sinY) \div Milli
        z2 == (z * cosY - p.x * sinY) \div Milli
        num == depth * Sub
        den == depth * Sub + z2
    IN  [px |-> IF den = 0 THEN 0 ELSE (width * Sub) \div 2 + Div(x * num, den),
         py |-> IF den = 0 THEN 0 ELSE (height * Sub) \div 2 + Div(y * num, den),
         scale |-> [num |-> num, den |-> den],
         z |-> z2]

(* Globe.jsx 51-68, globe.jsx 147-160: project.  scale = depth / (depth + z2)
   is kept as the fraction num / den; it is infinite when den = 0, and then
   px and py are not finite either. *)
project(p, rotY, rotX, width, height) ==
    LET cosY == Cos(rotY)
        sinY == Sin(rotY)
        x == (p.x * cosY + p.z * sinY) \div Milli
        z == (p.z * cosY - p.x * sinY) \div Milli
        y == p.y
        cosX == Cos(rotX)
        sinX == Sin(rotX)
        y2 == (y * cosX - z * sinX) \div Milli
        z2 == (z * cosX + y * sinX) \div Milli
        num == depth * Sub
        den == depth * Sub + z2
    IN  [px |-> IF den = 0 THEN 0 ELSE (width * Sub) \div 2 + Div(x * num, den),
         py |-> IF den = 0 THEN 0 ELSE (height * Sub) \div 2 + Div(y2 * num, den),
         scale |-> [num |-> num, den |-> den],
         z |-> z2]

\* a scale num / den is a finite number
Finite(scale) == scale.den # 0

\* a scale num / den is greater than 0
Positive(scale) == scale.num * scale.den > 0

\* Math.sqrt(p.x * p.x + p.y * p.y + p.z * p.z)
Dist(p) == Isqrt(p.x * p.x + p.y * p.y + p.z * p.z)

\* const pulse, in thousandths: Globe.jsx 75, globe.jsx 164
Pulse(v, t) ==
    IF v = "ambient" THEN (Sin(t * 20) * 150) \div Milli + 850
                     ELSE (Sin(t * 40) * 300) \div Milli + 700

\* const rotX of the ambient variant, Globe.jsx 74: Math.sin(t * 0.002) * 0.2
AmbientRotX(t) == (Sin(t * 2) * 200) \div Milli

\* globe.jsx 174: the factor 6 of amp
waveAmplitude == 6

\* globe.jsx 173-174: amp = Math.sin(dist / 10 - t * 0.1) * 6 * pulse
Amp(p, t, pulse) ==
    LET wave == Sin((Dist(p) * Milli) \div (Sub * 10) - t * 100)
    IN  (wave * waveAmplitude * pulse * Sub) \div (Milli * Milli)

\* the point handed to project: Globe.jsx 79, globe.jsx 175
Displaced(v, p, t, pulse) ==
    IF v = "ambient" THEN p ELSE [p EXCEPT !.z = @ + Amp(p, t, pulse)]

(* One pass of the for loop of draw: Globe.jsx 78-86, globe.jsx 171-183.
   CanvasRenderingContext2D.arc returns without effect when an argument is
   not finite, throws IndexSizeError when the radius is negative, and adds
   the circle to the path otherwise; size has the sign of scale because
   pulse > 0.  alpha is NaN when RADIUS is 0 (0 / 0); a NaN globalAlpha is
   ignored by the canvas. *)
drawPoint(v, L, rotY, rotX, pulse, p) ==
    Let(Displaced(v, p, L.t, pulse), LAMBDA q :
    Let(project(q, rotY, rotX, L.width, L.height), LAMBDA pr :
        [px |-> pr.px, py |-> pr.py, den |-> pr.scale.den,
         alphaNaN |-> (L.RADIUS = 0),
         outcome |-> IF ~Finite(pr.scale) THEN "none"
                     ELSE IF ~Positive(pr.scale) /\ pulse > 0 THEN "throw"
                     ELSE "fill"]))

\* the least element of a non-empty set of integers
Least(S) == CHOOSE i \in S : \A j \in S : i <= j

\* draw writing each displaced point back into the stored array
drawInPlace(v, L) ==
    Let(IF v = "ambient" THEN L.rotY + baseRotY
                         ELSE L.rotY + baseRotY + L.velocityY, LAMBDA rotY1 :
    Let(IF v = "ambient" THEN AmbientRotX(L.t) ELSE L.rotX + L.velocityX, LAMBDA rotX1 :
    Let(Pulse(v, L.t), LAMBDA pulse :
    Let([i \in 1..POINTS |-> drawPoint(v, L, rotY1, rotX1, pulse, L.points[i])], LAMBDA outcomes :
    LET throwAt == {i \in 1..POINTS : outcomes[i].outcome = "throw"}
        threw == throwAt # {}
        last == IF threw THEN Least(throwAt) ELSE POINTS
    IN  [L EXCEPT !.rotY = rotY1,
                  !.rotX = rotX1,
                  !.velocityX = IF v = "ambient" THEN @ ELSE (@ * 96) \div 100,
                  !.velocityY = IF v = "ambient" THEN @ ELSE (@ * 96) \div 100,
                  !.t = IF threw THEN @ ELSE @ + 1,
                  !.armed = ~threw,
                  !.threw = threw,
                  !.draws = @ + 1,
                  !.cleared = TRUE,
                  !.drawn = [i \in 1..last |-> outcomes[i]],
                  !.fills = Cardinality({i \in 1..last : outcomes[i].outcome = "fill"}),
                  !.points = [i \in 1..POINTS |->
                                 IF i <= last THEN Displaced(v, L.points[i], L.t, pulse)
                                              ELSE L.points[i]]]))))

(* Globe.jsx 71-92, globe.jsx 162-189: one call of draw in the closure L.
   The for loop stops at the first call that throws; then t is not
   incremented and requestAnimationFrame is not called.  The record keeps
   what the call did: draws counts the calls, cleared says that clearRect
   ran, drawn holds the passes of the for loop that ran, fills counts the
   circles filled. *)
draw(v, L) ==
    Let(IF v = "ambient" THEN L.rotY + baseRotY
                         ELSE L.rotY + baseRotY + L.velocityY, LAMBDA rotY1 :
    Let(IF v = "ambient" THEN AmbientRotX(L.t) ELSE L.rotX + L.velocityX, LAMBDA rotX1 :
    Let(Pulse(v, L.t), LAMBDA pulse :
    Let([i \in 1..POINTS |-> drawPoint(v, L, rotY1, rotX1, pulse, L.points[i])], LAMBDA outcomes :
    LET throwAt == {i \in 1..POINTS : outcomes[i].outcome = "throw"}
        threw == throwAt # {}
        last == IF threw THEN Least(throwAt) ELSE POINTS
    IN  [L EXCEPT !.rotY = rotY1,
                  !.rotX = rotX1,
                  !.velocityX = IF v = "ambient" THEN @ ELSE (@ * 96) \div 100,
                  !.velocityY = IF v = "ambient" THEN @ ELSE (@ * 96) \div 100,
                  !.t = IF threw THEN @ ELSE @ + 1,
                  !.armed = ~threw,
                  !.threw = threw,
                  !.draws = @ + 1,
                  !.cleared = TRUE,
                  !.drawn = [i \in 1..last |-> outcomes[i]],
                  !.fills = Cardinality({i \in 1..last : outcomes[i].outcome = "fill"})]))))

\* NewLoop with a rotation speed left over from a drag
NewLoopSpinning(d, pts) ==
    [width |-> d.width, height |-> d.height, RADIUS |-> Radius(d),
     points |-> pts, t |-> 0, rotY |-> 0, rotX |-> 0,
     velocityX |-> 100, velocityY |-> 100,
     armed |-> FALSE, threw |-> FALSE, draws |-> 0, cleared |-> FALSE,
     drawn |-> <<>>, fills |-> 0]

(* Globe.jsx 29-48 and 94, globe.jsx 127-145 and 191: the closure a run of
   the draw effect creates, after the effect's last statement: draw() in
   the ambient variant, requestAnimationFrame(draw) in the interactive one. *)
NewLoop(d, pts) ==
    [width |-> d.width, height |-> d.height, RADIUS |-> Radius(d),
     points |-> pts, t |-> 0, rotY |-> 0, rotX |-> 0,
     velocityX |-> 0, velocityY |-> 0,
     armed |-> FALSE, threw |-> FALSE, draws |-> 0, cleared |-> FALSE,
     drawn |-> <<>>, fills |-> 0]

StartLoop(v, d, pts) ==
    IF v = "ambient" THEN draw(v, NewLoop(d, pts))
                     ELSE [NewLoop(d, pts) EXCEPT !.armed = TRUE]

----------------------------------------------------------------------------
(* The component *)

\* the state a root falls into when an effect throws: React, finding no error
\* boundary, unmounts every component of the root and runs their cleanups
RootUnmounted(q) ==
    [i \in 1..Len(q) |->
        [q[i] EXCEPT !.phase = "unmounted", !.queued = <<>>,
                     !.listener = resizeCleanup(@)]]

NoProbe == [fn |-> "none"]

\* no value under localStorage "prompt_history"
Absent == [type |-> "absent", items |-> <<>>]

\* an array parsed from JSON, or built by the code
Array(seq) == [type |-> "array", items |-> seq]

\* the History component is not rendered
HistoryIdle ==
    /\ stored = Absent
    /\ items = Array(<<>>)
    /\ historyPhase = "idle"

\* res.prompt_id || "default" (the promptId prop of Rating)
PromptIds == {"default", "id1", "id2"}

\* localStorage without a rated_ or rating_ key; "" is getItem's null
NoVotes == [p \in PromptIds |-> [rated |-> "", rating |-> ""]]

\* no Rating component is rendered, nobody has voted
RatingIdle ==
    /\ promptId = "default"
    /\ rating = 0
    /\ hasVoted = FALSE
    /\ voteLoading = FALSE
    /\ ratingMounted = FALSE
    /\ instance = 0
    /\ localVotes = NoVotes
    /\ posts = {}
    /\ feedback = [p \in PromptIds |-> 0]
    /\ alerts = 0

\* The text of the prompt box: `spaces` blanks, then `chars` characters
\* that begin and end with a non-blank one and are told apart by `word`.
Text(spaces, word, chars) == [spaces |-> spaces, word |-> word, chars |-> chars]

\* useState(""), part_003 11
EmptyText == Text(0, "", 0)

\* res === null; `from` names the request a response answers
NoRes == [after |-> "", from |-> 0]

\* enhanced === null
NoEnhanced == [after |-> "", refined |-> "", from |-> 0]

\* refineError === null, enhanceError === null
NoError == ""

\* the state of App after its first render, with nothing typed
AppFresh ==
    /\ text = EmptyText
    /\ res = NoRes
    /\ enhanced = NoEnhanced
    /\ loading = FALSE
    /\ enhancing = FALSE
    /\ refineError = NoError
    /\ enhanceError = NoError
    /\ refineControllerRef = 0
    /\ enhanceControllerRef = 0
    /\ refines = {}
    /\ enhances = {}
    /\ nextId = 1
    /\ nextEnhanceId = 1

\* the App is rendered and nothing is typed or sent
AppIdle == appVariant = "cancel" /\ AppFresh

\* the components of the page other than the Globe are not followed
PageIdle == HistoryIdle /\ RatingIdle /\ AppIdle

InitGlobe ==
    /\ variant \in Variants
    /\ maxWidth \in MaxDims
    /\ maxHeight \in MaxDims
    /\ phase = "rendered"
    /\ dimensions = [width |-> maxWidth, height |-> maxHeight]
    /\ queued = <<>>
    /\ containerWidth \in ContainerWidths
    /\ skipped = FALSE
    /\ loops = <<>>
    /\ frameNo = 0
    /\ hostErrors = 0
    /\ listener = FALSE
    /\ PageIdle

Init ==
    /\ InitGlobe
    /\ peer = <<>>
    /\ probe = NoProbe

(* Globe.jsx 23-95: one run of the draw effect with the dimensions d of the
   render it belongs to.  ctxOk says whether canvas.getContext("2d") gave a
   context; the effect returns at its guards when it gave none.  The first
   draw() runs inside the effect in the ambient variant: an exception there
   leaves the effect, and React, finding no error boundary (History.jsx
   144-148 has none), unmounts the tree, which runs the cleanup of the
   resize effect.  The resize effect, declared first, has registered the
   listener (Globe.jsx 18) before the draw effect first runs. *)
RunDrawEffect(d, pts, update, ctxOk) ==
    \E L \in {StartLoop(variant, d, pts)} :
    LET crashed == ctxOk /\ L.threw
    IN  /\ loops' = IF ctxOk THEN Append(loops, L) ELSE loops
        /\ skipped' = ~ctxOk
        /\ hostErrors' = hostErrors + (IF crashed THEN 1 ELSE 0)
        /\ phase' = IF crashed THEN "unmounted" ELSE "mounted"
        /\ queued' = IF crashed THEN <<>> ELSE update
        /\ listener' = IF crashed THEN resizeCleanup(TRUE) ELSE TRUE
        /\ peer' = IF crashed THEN RootUnmounted(peer) ELSE peer

(* Globe.jsx 10-20 and 23-95: the effects of the first render.  The resize
   effect measures the container and queues the new dimensions; the draw
   effect runs with the dimensions of the first render.  Effects run in
   the order of the tree: those of an instance rendered earlier in the same
   root have run. *)
Mount ==
    /\ phase = "rendered"
    /\ \A i \in 1..Len(peer) : peer[i].phase # "rendered"
    /\ \E pts \in PointSets(Radius(dimensions)), ctxOk \in BOOLEAN :
           RunDrawEffect(dimensions, pts, <<updateSize(containerWidth)>>, ctxOk)
    /\ UNCHANGED <<variant, maxWidth, maxHeight, dimensions, containerWidth,
                   frameNo, probe, pageVars>>

(* The render that commits the queued dimensions; the draw effect runs
   again because dimensions is a new object. *)
Commit ==
    /\ phase = "mounted"
    /\ queued # <<>>
    /\ dimensions' = Head(queued)
    /\ \E pts \in PointSets(Radius(Head(queued))), ctxOk \in BOOLEAN :
           RunDrawEffect(Head(queued), pts, <<>>, ctxOk)
    /\ UNCHANGED <<variant, maxWidth, maxHeight, containerWidth, frameNo,
                   probe, pageVars>>

(* Globe.jsx 11-18: a window resize event while the listener is registered.
   containerRef.current is the container as long as the component is
   mounted and null afterwards, when updateSize returns at its guard. *)
Resize(w) ==
    /\ listener
    /\ phase = "mounted"
    /\ queued = <<>>
    /\ Len(loops) < MaxLoops
    /\ containerWidth' = w
    /\ dimensions' = updateSize(w)
    /\ \E pts \in PointSets(Radius(updateSize(w))), ctxOk \in BOOLEAN :
           RunDrawEffect(updateSize(w), pts, <<>>, ctxOk)
    /\ UNCHANGED <<variant, maxWidth, maxHeight, frameNo, probe, pageVars>>

(* Globe.jsx 19: the only cleanup the component has removes the resize
   listener.  The draw effect returns no cleanup, so no pending
   requestAnimationFrame callback is cancelled. *)
Unmount ==
    /\ phase = "mounted"
    /\ phase' = "unmounted"
    /\ queued' = <<>>
    /\ listener' = resizeCleanup(listener)
    /\ UNCHANGED <<variant, maxWidth, maxHeight, dimensions, containerWidth,
                   skipped, loops, frameNo, hostErrors, peer, probe, pageVars>>

\* the loops whose requestAnimationFrame callback is pending
Armed(ls) == {i \in 1..Len(ls) : ls[i].armed}

(* One display frame: the browser runs every pending animation frame
   callback, in the order of the requests.  An exception leaving a callback
   is reported to the host and the other callbacks still run. *)
DisplayFrame ==
    /\ frameNo < MaxFrames
    /\ Armed(loops) # {}
    /\ loops' = [i \in 1..Len(loops) |->
                    IF loops[i].armed THEN draw(variant, loops[i]) ELSE loops[i]]
    /\ hostErrors' = hostErrors + Cardinality({i \in Armed(loops) : loops'[i].threw})
    /\ frameNo' = frameNo + 1
    /\ UNCHANGED <<variant, maxWidth, maxHeight, phase, dimensions, queued,
                   containerWidth, skipped, listener, peer, probe, pageVars>>

Next ==
    \/ Mount
    \/ Commit
    \/ \E w \in ContainerWidths : Resize(w)
    \/ Unmount
    \/ DisplayFrame

Spec == Init /\ [][Next]_vars

----------------------------------------------------------------------------
(* Two instances in one React root: the instance above, and a second one
   rendered before it, whose state is the record peer[1].  Both run the
   same component, so the second instance's steps are those above, on the
   fields of the record.  An effect of either instance that throws
   unmounts the root, and with it both instances. *)

\* the props of the second instance
PeerDims == {400}

InitialPeer(m, w) ==
    [maxWidth |-> m, maxHeight |-> m, phase |-> "rendered",
     dimensions |-> [width |-> m, height |-> m], queued |-> <<>>,
     containerWidth |-> w, listener |-> FALSE, loops |-> <<>>,
     frames |-> 0, hostErrors |-> 0]

\* both instances are given square limits
InitPair ==
    /\ InitGlobe
    /\ maxWidth = maxHeight
    /\ peer \in {<<InitialPeer(m, w)>> : m \in PeerDims, w \in ContainerWidths}
    /\ probe = NoProbe

\* Globe.jsx 11-16: updateSize of the second instance
peerUpdateSize(q, w) ==
    LET size == Min3(w, q.maxWidth, q.maxHeight)
    IN  [width |-> size, height |-> size]

\* Globe.jsx 23-95: the second instance after a run of its draw effect that
\* created the closure L
PeerDrawEffect(q, L, update, ctxOk) ==
    LET crashed == ctxOk /\ L.threw
    IN  [q EXCEPT !.loops = IF ctxOk THEN Append(@, L) ELSE @,
                  !.hostErrors = @ + (IF crashed THEN 1 ELSE 0),
                  !.phase = IF crashed THEN "unmounted" ELSE "mounted",
                  !.queued = IF crashed THEN <<>> ELSE update,
                  !.listener = IF crashed THEN resizeCleanup(TRUE) ELSE TRUE]

\* a run of the draw effect of the second instance q with dimensions d
PeerRuns(q, d, update) ==
    \E pts \in PointSets(Radius(d)), ctxOk \in BOOLEAN :
    \E L \in {StartLoop(variant, d, pts)} :
    LET crashed == ctxOk /\ L.threw
    IN  /\ peer' = <<PeerDrawEffect(q, L, update, ctxOk)>>
        /\ phase' = IF crashed THEN "unmounted" ELSE phase
        /\ queued' = IF crashed THEN <<>> ELSE queued
        /\ listener' = IF crashed THEN resizeCleanup(listener) ELSE listener
        /\ UNCHANGED <<variant, maxWidth, maxHeight, dimensions, containerWidth,
                       skipped, loops, frameNo, hostErrors, probe, pageVars>>

PeerMount ==
    /\ peer # <<>>
    /\ peer[1].phase = "rendered"
    /\ PeerRuns(peer[1], peer[1].dimensions,
                <<peerUpdateSize(peer[1], peer[1].containerWidth)>>)

PeerCommit ==
    /\ peer # <<>>
    /\ peer[1].phase = "mounted"
    /\ peer[1].queued # <<>>
    /\ LET q == [peer[1] EXCEPT !.dimensions = Head(peer[1].queued)]
       IN  PeerRuns(q, q.dimensions, <<>>)

PeerResize(w) ==
    /\ peer # <<>>
    /\ peer[1].listener
    /\ peer[1].phase = "mounted"
    /\ peer[1].queued = <<>>
    /\ Len(peer[1].loops) < PeerMaxLoops
    /\ LET q == [peer[1] EXCEPT !.containerWidth = w,
                                !.dimensions = peerUpdateSize(peer[1], w)]
       IN  PeerRuns(q, q.dimensions, <<>>)

PeerUnmount ==
    /\ peer # <<>>
    /\ peer[1].phase = "mounted"
    /\ peer' = <<[peer[1] EXCEPT !.phase = "unmounted", !.queued = <<>>,
                                 !.listener = resizeCleanup(@)]>>
    /\ UNCHANGED <<variant, maxWidth, maxHeight, phase, dimensions, queued,
                   containerWidth, skipped, loops, frameNo, hostErrors, listener,
                   probe, pageVars>>

\* the pending animation frame callbacks of the second instance run
PeerFrame ==
    /\ peer # <<>>
    /\ peer[1].frames < PeerMaxFrames
    /\ Armed(peer[1].loops) # {}
    /\ \E ls \in {[i \in 1..Len(peer[1].loops) |->
                       IF peer[1].loops[i].armed
                       THEN draw(variant, peer[1].loops[i])
                       ELSE peer[1].loops[i]]} :
           peer' = <<[peer[1] EXCEPT
                        !.loops = ls,
                        !.frames = @ + 1,
                        !.hostErrors = @ + Cardinality(
                            {i \in Armed(peer[1].loops) : ls[i].threw})]>>
    /\ UNCHANGED <<variant, maxWidth, maxHeight, phase, dimensions, queued,
                   containerWidth, skipped, loops, frameNo, hostErrors, listener,
                   probe, pageVars>>

NextPair ==
    \/ Next
    \/ PeerMount
    \/ PeerCommit
    \/ \E w \in ContainerWidths : PeerResize(w)
    \/ PeerUnmount
    \/ PeerFrame

SpecPair == InitPair /\ [][NextPair]_vars

----------------------------------------------------------------------------
(* Point generation and projection on their own: one application of the
   function to arguments drawn at the start, in the closure of a draw
   effect of an instance that has just been rendered. *)

\* Math.cbrt(Math.random()), in thousandths
CbrtSweep == {0, 250, 500, 750, 1000}
\* Math.acos(2 * Math.random() - 1), in (0, pi]
ThetaSweep == {(k * PiMilli) \div 8 : k \in 1..8}
\* 2 * Math.PI * Math.random(), in [0, 2 pi)
PhiSweep == {(k * PiMilli) \div 8 : k \in 0..15}

\* the viewports a draw effect of the instance can run with
Viewports ==
    {[width |-> maxWidth, height |-> maxHeight], updateSize(containerWidth)}

InitGenerate ==
    /\ InitGlobe
    /\ peer = <<>>
    /\ probe \in [fn : {"GenPoint"}, d : Viewports, c : CbrtSweep,
                   theta : ThetaSweep, phi : PhiSweep, out : {<<>>}]

\* Globe.jsx 31 and 37-43: one pass of the generation loop
Generate ==
    /\ probe.fn = "GenPoint"
    /\ probe.out = <<>>
    /\ probe' = [probe EXCEPT !.out =
                    <<GenPoint(Radius(probe.d), probe.c, probe.theta, probe.phi)>>]
    /\ UNCHANGED <<variant, maxWidth, maxHeight, phase, dimensions, queued,
                   containerWidth, skipped, loops, frameNo, hostErrors, listener,
                   peer, pageVars>>

NextGenerate == Generate

SpecGenerate == InitGenerate /\ [][NextGenerate]_vars

\* coordinates of the points handed to project, in tenths of a pixel
Coords == {-2640, -30, 0, 40}
\* rotation angles: the multiples of a quarter turn below a full turn
Turns == {k * (PiMilli \div 2) : k \in 0..3}

InitProject ==
    /\ InitGlobe
    /\ peer = <<>>
    /\ probe \in [fn : {"project"}, p : [x : Coords, y : Coords, z : Coords],
                   rotY : Turns, rotX : Turns, out : {<<>>}]

\* Globe.jsx 51-68: one call of project in the closure of the draw effect
\* of the first render, whose width and height are those of dimensions
Project ==
    /\ probe.fn = "project"
    /\ probe.out = <<>>
    /\ probe' = [probe EXCEPT !.out =
                    <<project(probe.p, probe.rotY, probe.rotX,
                              dimensions.width, dimensions.height)>>]
    /\ UNCHANGED <<variant, maxWidth, maxHeight, phase, dimensions, queued,
                   containerWidth, skipped, loops, frameNo, hostErrors, listener,
                   peer, pageVars>>

NextProject == Project

SpecProject == InitProject /\ [][NextProject]_vars

----------------------------------------------------------------------------
(* Vocabulary of the properties *)

\* the camera distance and the largest wave displacement, in tenths of a pixel
D == depth * Sub
WaveReach == waveAmplitude * Sub

Square(d) == d.width = d.height

InitialDimensions == [width |-> maxWidth, height |-> maxHeight]

\* the viewport a loop runs with
Viewport(L) == [width |-> L.width, height |-> L.height]

\* the first measurement has been committed and the component is mounted
Measured == phase = "mounted" /\ queued = <<>>

\* the frame counter of the loop started last, the one of the viewport in force
CurrentT == IF loops = <<>> THEN 0 ELSE loops[Len(loops)].t

\* quarter turns, where Sin and Cos are exact
Quarter == PiMilli \div 2
Rotations ==
    {<<k * Quarter, 0>> : k \in 0..3} \cup {<<0, k * Quarter>> : k \in 1..3}

\* the calls of draw made so far by the loops 1..n of an instance
RECURSIVE DrawsUpTo(_, _)
DrawsUpTo(ls, n) == IF n = 0 THEN 0 ELSE ls[n].draws + DrawsUpTo(ls, n - 1)

TotalDraws(ls) == DrawsUpTo(ls, Len(ls))

\* the frames drawn since mount: the draws of the loop that has drawn most
FramesDrawn ==
    IF loops = <<>> THEN 0
    ELSE CHOOSE n \in {loops[i].draws : i \in 1..Len(loops)} :
             \A i \in 1..Len(loops) : loops[i].draws <= n

\* the rotation angle of the loop started last, the one of the viewport in force
CurrentRotY == IF loops = <<>> THEN 0 ELSE loops[Len(loops)].rotY

\* the denominators project gives for the stored point p of loop L at the
\* loop's current t, under every rotation of Rotations
Denominators(L, p) ==
    {project(Displaced(variant, p, L.t, Pulse(variant, L.t)),
             r[1], r[2], L.width, L.height).scale.den : r \in Rotations}

----------------------------------------------------------------------------
(* C1 (as claimed): once the component is unmounted, a display frame leaves
   no animation frame callback pending: a callback that was pending at
   teardown fires at most once and does not request another frame. *)
C1_NoFrameScheduledAfterTeardown ==
    [][(phase = "unmounted" /\ frameNo' # frameNo) => Armed(loops') = {}]_vars

(* C2 (as claimed): at most one animation frame callback of the instance is
   pending at any time. *)
C2_AtMostOnePendingCallback == Cardinality(Armed(loops)) <= 1

(* C3 (as claimed): once the component is mounted and measured, the frame
   counter t of the viewport in force never decreases: a resize leaves it
   at its previous value and a frame increases it. *)
C3_FrameCounterNeverDecreases ==
    [][(Measured /\ phase' = "mounted") => CurrentT' >= CurrentT]_vars

(* C4 (as claimed): in every state the viewport is square and not negative,
   and every draw loop runs with a square viewport. *)
C4_AlwaysSquare ==
    /\ Square(dimensions)
    /\ dimensions.width >= 0
    /\ \A i \in 1..Len(loops) : Square(Viewport(loops[i]))

(* C4 (amended): width and height are never negative; the viewport is
   square once the first measurement is committed, and until then it is
   {maxWidth, maxHeight}; every draw loop runs with a square viewport except
   the one started at mount, which runs with {maxWidth, maxHeight}. *)
C4_SquareOnceMeasured ==
    /\ dimensions.width >= 0
    /\ dimensions.height >= 0
    /\ Measured => Square(dimensions)
    /\ Square(dimensions) \/ dimensions = InitialDimensions
    /\ \A i \in 1..Len(loops) :
          \/ Square(Viewport(loops[i]))
          \/ i = 1 /\ Viewport(loops[i]) = InitialDimensions

\* a measured, square viewport after a mount with maxWidth # maxHeight, whose
\* first loop runs with the viewport of the first render
C4_Witness ==
    /\ Measured
    /\ maxWidth # maxHeight
    /\ dimensions.width > 0
    /\ Len(loops) >= 2
    /\ ~Square(Viewport(loops[1]))
    /\ Square(Viewport(loops[2]))

(* C5: once a measurement of a container of width w is committed, the
   viewport is {size, size} where size is the least of w, maxWidth and
   maxHeight, so it exceeds neither maxWidth nor maxHeight. *)
C5_ResizeClampsToSquare ==
    Measured =>
        /\ dimensions.width = dimensions.height
        /\ dimensions.width <= containerWidth
        /\ dimensions.width <= maxWidth
        /\ dimensions.width <= maxHeight
        /\ dimensions.width \in {containerWidth, maxWidth, maxHeight}

\* a resize event has been handled (a third loop exists) in a container
\* wider than maxHeight, and the viewport is clamped to maxHeight
C5_Witness ==
    /\ Measured
    /\ Len(loops) = 3
    /\ containerWidth > maxHeight
    /\ maxHeight < maxWidth
    /\ dimensions = [width |-> maxHeight, height |-> maxHeight]

(* C6 (as claimed): an exception thrown in draw neither leaves the callback
   nor stops the loop: no exception reaches the host, and a loop whose draw
   threw has its next frame scheduled. *)
C6_ThrowDoesNotAbortLoop ==
    /\ hostErrors = 0
    /\ \A i \in 1..Len(loops) : loops[i].threw => loops[i].armed

(* C7 (as claimed): when the draw effect found no drawing context, the
   frame is skipped and a retry is scheduled for the next frame, with no
   viewport change needed. *)
C7_SkippedFrameIsRetried ==
    (Measured /\ skipped) => Armed(loops) # {}

(* C8 (as claimed): whenever RADIUS < D, every denominator D + z'' that
   project computed in a draw is greater than 0, in both variants. *)
C8_PositiveWheneverRadiusBelowD ==
    \A i \in 1..Len(loops) :
        loops[i].RADIUS < D =>
            \A k \in 1..Len(loops[i].drawn) : loops[i].drawn[k].den > 0

(* C8 (amended): the denominator D + z'' is greater than 0, so that scale is
   positive and finite, for every stored point, in every draw and under
   every rotation by quarter turns, whenever RADIUS < D in the ambient
   variant and whenever RADIUS + 6 < D in the interactive variant, whose
   wave displacement reaches 6. *)
C8_Reach(L) == IF variant = "ambient" THEN L.RADIUS ELSE L.RADIUS + WaveReach

C8_PositiveDenominator ==
    \A i \in 1..Len(loops) :
        C8_Reach(loops[i]) < D =>
            /\ \A k \in 1..Len(loops[i].drawn) :
                  /\ loops[i].drawn[k].den > 0
                  /\ loops[i].drawn[k].outcome = "fill"
            /\ \A k \in 1..POINTS :
                  \A den \in Denominators(loops[i], loops[i].points[k]) : den > 0

\* an interactive loop with RADIUS + 6 < D drew a displaced point of the
\* sphere's surface
C8_Witness ==
    \E i \in 1..Len(loops) :
        /\ variant = "interactive"
        /\ loops[i].RADIUS > 0
        /\ C8_Reach(loops[i]) < D
        /\ loops[i].draws > 0
        /\ \E k \in 1..POINTS :
              /\ Dist(loops[i].points[k]) = loops[i].RADIUS
              /\ loops[i].drawn[k].den # D + loops[i].points[k].z
              /\ loops[i].drawn[k].den > 0

(* C9 (as claimed): when RADIUS >= D, project clamps scale to a small
   positive floor: every scale used in a draw is positive and finite and
   the draw does not throw. *)
C9_ScaleClampedToPositiveFloor ==
    \A i \in 1..Len(loops) :
        loops[i].RADIUS >= D =>
            /\ ~loops[i].threw
            /\ \A k \in 1..Len(loops[i].drawn) :
                  LET scale == [num |-> D, den |-> loops[i].drawn[k].den]
                  IN  Finite(scale) /\ Positive(scale)

(* C10 (as claimed): with RADIUS = 0 a draw clears the surface, draws no
   point and raises no error. *)
C10_EmptyFrameWhenDegenerate ==
    \A i \in 1..Len(loops) :
        (loops[i].RADIUS = 0 /\ loops[i].draws > 0) =>
            /\ loops[i].cleared
            /\ loops[i].fills = 0
            /\ ~loops[i].threw

(* C10 (amended): with RADIUS = 0 a draw clears the surface, raises no
   error and requests the next frame, but it does not draw nothing: it
   fills one circle per point, with a positive finite scale and an alpha
   that is not a number.  In the ambient variant every such circle has
   scale 1 and lies at the centre (width / 2, height / 2) of the viewport;
   in the interactive variant the wave moves it by at most 6 in depth. *)
C10_DegenerateFrameDrawsAtCentre ==
    \A i \in 1..Len(loops) :
        (loops[i].RADIUS = 0 /\ loops[i].draws > 0) =>
            /\ loops[i].cleared
            /\ ~loops[i].threw
            /\ loops[i].armed
            /\ loops[i].fills = POINTS
            /\ Len(loops[i].drawn) = POINTS
            /\ \A k \in 1..POINTS :
                  /\ loops[i].drawn[k].outcome = "fill"
                  /\ loops[i].drawn[k].alphaNaN
                  /\ loops[i].drawn[k].den >= D - WaveReach
                  /\ loops[i].drawn[k].den <= D + WaveReach
                  /\ variant = "ambient" =>
                        /\ loops[i].drawn[k].den = D
                        /\ loops[i].drawn[k].px = (loops[i].width * Sub) \div 2
                        /\ loops[i].drawn[k].py = (loops[i].height * Sub) \div 2

\* a loop started in a collapsed container has drawn a frame
C10_Witness ==
    \E i \in 1..Len(loops) :
        /\ loops[i].RADIUS = 0
        /\ loops[i].width = 0
        /\ loops[i].draws > 0
        /\ loops[i].fills = POINTS

(* C12 (as claimed): in the ambient variant, after N frames have been drawn
   since mount the rotation angle in force is N * baseRotY, whatever events
   came between the frames. *)
C12_RotYIsFramesTimesBaseSpeed ==
    (variant = "ambient" /\ phase = "mounted" /\ loops # <<>>) =>
        CurrentRotY = FramesDrawn * baseRotY

(* C13 (as claimed): a display frame makes exactly one call of draw in the
   instance, so that rotation and t advance exactly once per frame. *)
C13_OneDrawPerDisplayFrame ==
    [][frameNo' # frameNo => TotalDraws(loops') = TotalDraws(loops) + 1]_vars

(* C14 (as claimed): handling a resize event runs no draw and starts no
   loop: the loops that exist go on and consume the new viewport. *)
C14_ResizeDoesNotDraw ==
    [][(Measured /\ frameNo' = frameNo) =>
          /\ TotalDraws(loops') = TotalDraws(loops)
          /\ Len(loops') = Len(loops)]_vars

(* C18: a call of draw leaves the stored points as they are: after every
   step each loop holds the x, y, z it held before, in both variants; the
   wave displacement of the interactive variant reaches project only. *)
C18_DrawLeavesPointsAlone ==
    [][\A i \in 1..Len(loops) : loops'[i].points = loops[i].points]_vars

\* an interactive loop has drawn two frames and projected a stored point
\* of the sphere's surface with a wave displacement other than 0
C18_Witness ==
    \E i \in 1..Len(loops) :
        /\ variant = "interactive"
        /\ loops[i].draws = 2
        /\ ~loops[i].threw
        /\ \E k \in 1..POINTS :
              /\ loops[i].points[k].z # 0
              /\ Amp(loops[i].points[k], loops[i].t - 1,
                     Pulse(variant, loops[i].t - 1)) # 0

(* C19 (as claimed): while the component is mounted, a committed
   measurement or resize that leaves the viewport size as it was starts no
   loop and regenerates no point set. *)
C19_SameSizeStartsNoLoop ==
    [][(phase = "mounted" /\ dimensions' = dimensions /\ frameNo' = frameNo)
          => loops' = loops]_vars

(* C15: teardown removes the resize listener: once the component is
   unmounted updateSize is not registered, no resize event is handled, and
   no step changes the viewport or adds a point set. *)
C15_NoResizeAfterUnmount ==
    /\ [](phase = "unmounted" =>
            /\ ~listener
            /\ \A w \in ContainerWidths : ~ENABLED Resize(w))
    /\ [][phase = "unmounted" =>
            /\ dimensions' = dimensions
            /\ Len(loops') = Len(loops)
            /\ \A i \in 1..Len(loops) : loops'[i].points = loops[i].points]_vars

\* a measured component with a running loop was unmounted by its parent
C15_Witness ==
    /\ phase = "unmounted"
    /\ hostErrors = 0
    /\ ~listener
    /\ Len(loops) >= 2
    /\ Armed(loops) # {}
    /\ dimensions = updateSize(containerWidth)

(* C16 (as claimed): teardown is idempotent and leaves nothing scheduled:
   in every unmounted state, whether or not a draw loop was ever started,
   running the cleanup again changes nothing and no animation frame
   callback is pending. *)
C16_TeardownIdempotentAndQuiet ==
    phase = "unmounted" =>
        /\ resizeCleanup(listener) = listener
        /\ Armed(loops) = {}

(* C17: every generated point lies within the sphere of radius RADIUS =
   0.44 * min(width, height) of the viewport it was generated for: its
   distance from the centre, and so each of its coordinates, is at most
   RADIUS (distances are whole tenths of a pixel). *)
C17_PointsWithinRadius ==
    probe.out # <<>> =>
        LET p == probe.out[1]
            R == Radius(probe.d)
        IN  /\ Dist(p) <= R
            /\ p.x <= R /\ -p.x <= R
            /\ p.y <= R /\ -p.y <= R
            /\ p.z <= R /\ -p.z <= R

\* a point generated on the surface of a sphere of positive radius, off
\* every axis
C17_Witness ==
    /\ probe.out # <<>>
    /\ probe.c = 1000
    /\ Radius(probe.d) > 0
    /\ probe.out[1].x # 0
    /\ probe.out[1].y # 0
    /\ probe.out[1].z # 0
    /\ Dist(probe.out[1]) * 100 >= Radius(probe.d) * 99

\* cos and sin of k quarter turns
UnitCos(a) == CASE a \div Quarter = 0 -> 1 [] a \div Quarter = 1 -> 0
                [] a \div Quarter = 2 -> -1 [] OTHER -> 0
UnitSin(a) == CASE a \div Quarter = 0 -> 0 [] a \div Quarter = 1 -> 1
                [] a \div Quarter = 2 -> 0 [] OTHER -> -1

\* the reference projection of C20, for rotations by quarter turns
Reference(p, rotY, rotX, width, height) ==
    LET x1 == p.x * UnitCos(rotY) + p.z * UnitSin(rotY)
        z1 == p.z * UnitCos(rotY) - p.x * UnitSin(rotY)
        y2 == p.y * UnitCos(rotX) - z1 * UnitSin(rotX)
        z2 == z1 * UnitCos(rotX) + p.y * UnitSin(rotX)
    IN  [px |-> (width * Sub) \div 2 + Div(x1 * D, D + z2),
         py |-> (height * Sub) \div 2 + Div(y2 * D, D + z2),
         scale |-> [num |-> D, den |-> D + z2],
         z |-> z2]

(* C20: project turns the point about the vertical axis by rotY first and
   about the horizontal axis by rotX second, and takes px from x' and py
   from y'': for every point of the grid and all rotations by quarter
   turns its result is the reference x' = x cosY + z sinY, z' = z cosY -
   x sinY, y'' = y cosX - z' sinX, z'' = z' cosX + y sinX, scale =
   D / (D + z''), px = width / 2 + x' scale, py = height / 2 + y'' scale. *)
C20_ProjectMatchesReference ==
    probe.out # <<>> =>
        probe.out[1] = Reference(probe.p, probe.rotY, probe.rotX,
                                 dimensions.width, dimensions.height)

\* project was applied to a point with three different coordinates under a
\* quarter turn about each axis, in a viewport that is not square
C20_Witness ==
    /\ probe.out # <<>>
    /\ probe.p = [x |-> 40, y |-> -30, z |-> -2640]
    /\ probe.rotY = Quarter
    /\ probe.rotX = Quarter
    /\ dimensions.width # dimensions.height
    /\ probe.out[1].z = -30
    /\ probe.out[1].scale.den = D - 30
    /\ probe.out[1].px < (dimensions.width * Sub) \div 2
    /\ probe.out[1].py > (dimensions.height * Sub) \div 2

(* C11 (as claimed): two instances mounted together are independent: a
   step of one of them (an effect run, a frame, a resize, its teardown)
   leaves every part of the other's state as it was, so that each behaves
   as it would alone. *)
C11_InstancesIndependent ==
    [][\/ peer' = peer
       \/ UNCHANGED <<phase, dimensions, queued, containerWidth, skipped,
                      loops, frameNo, hostErrors, listener>>]_vars

(* C21: in the interactive variant nothing assigns velocityX or velocityY
   but the multiplication by 0.96 in draw, so in every loop both are 0, rotX
   is 0, and rotY is baseRotY times the number of frames the loop has
   drawn. *)
C21_VelocitiesStayZero ==
    variant = "interactive" =>
        \A i \in 1..Len(loops) :
            /\ loops[i].velocityX = 0
            /\ loops[i].velocityY = 0
            /\ loops[i].rotX = 0
            /\ loops[i].rotY = loops[i].draws * baseRotY

\* an interactive loop has drawn two frames
C21_Witness ==
    /\ variant = "interactive"
    /\ \E i \in 1..Len(loops) :
          /\ loops[i].draws = 2
          /\ loops[i].t = 2
          /\ loops[i].rotY = 2 * baseRotY


(***************************************************************************)
(* The History list, frontend/src/History.jsx.                             *)
(*                                                                         *)
(* A value of localStorage "prompt_history" is a record: type says what    *)
(* getItem returns ("absent" for null, "blank" for the empty string,       *)
(* "invalid" for text that JSON.parse rejects) or what the text parses to  *)
(* ("null", "number", "object", "array", "text" for a string with          *)
(* characters, "notext" for the string without); items holds the elements  *)
(* of an array.                                                            *)
(***************************************************************************)

\* String.prototype.trim
trim(str) == Text(0, str.word, str.chars)

\* String.prototype.length
length(str) == str.spaces + str.chars

\* A history entry as handleRefine writes it.  Its id (Date.now()) and ts
\* are clock readings; History uses id as the React key only.
Entry(before, after) == [before |-> before, after |-> after]

\* the globe is mounted and at rest while another component is followed
GlobeIdle ==
    /\ variant = "interactive"
    /\ maxWidth = 600
    /\ maxHeight = 600
    /\ phase = "fresh"
    /\ dimensions = InitialDimensions
    /\ queued = <<>>
    /\ containerWidth = 0
    /\ skipped = FALSE
    /\ loops = <<>>
    /\ frameNo = 0
    /\ hostErrors = 0
    /\ listener = FALSE
    /\ peer = <<>>
    /\ probe = NoProbe

StoredWords == {"p", "q", "r"}

StoredEntries == {Entry(Text(0, w, 12), "after " \o w) : w \in StoredWords}

\* arrays of history entries, at most n long
RECURSIVE ArraysUpTo(_)
ArraysUpTo(n) ==
    IF n = 0 THEN {<<>>}
    ELSE LET shorter == ArraysUpTo(n - 1)
         IN  shorter \cup {Append(a, e) : a \in shorter, e \in StoredEntries}

MaxStored == 3

\* what may be found under the key: written by handleRefine, by an older
\* version of the page, by another script of the origin or by the user
StoredValues ==
    {Absent,
     [type |-> "blank", items |-> <<>>],
     [type |-> "invalid", items |-> <<>>],
     [type |-> "null", items |-> <<>>],
     [type |-> "number", items |-> <<>>],
     [type |-> "object", items |-> <<>>],
     [type |-> "notext", items |-> <<>>],
     [type |-> "text", items |-> <<>>]}
    \cup {Array(a) : a \in ArraysUpTo(MaxStored)}

\* History.jsx 7-12: JSON.parse(getItem(...) || "[]"), [] when it throws
LoadHistory(v) ==
    CASE v.type \in {"absent", "blank"} -> Array(<<>>)
      [] v.type = "invalid" -> Array(<<>>)
      [] OTHER -> v

\* History.jsx 15-36: the render of History with the state `value`:
\* "throws" (null.length; map of a string), "nothing" or "list"
RenderHistory(value) ==
    CASE value.type = "null" -> "throws"
      [] value.type \in {"number", "object", "notext"} -> "nothing"
      [] value.type = "text" -> "throws"
      [] OTHER -> IF Len(value.items) = 0 THEN "nothing" ELSE "list"

InitHistory ==
    /\ GlobeIdle
    /\ RatingIdle
    /\ AppIdle
    /\ stored \in StoredValues
    /\ items = Array(<<>>)
    /\ historyPhase = "idle"

\* first render with useState([]), then the mount effect
HistoryMount ==
    /\ historyPhase = "idle"
    /\ items' = LoadHistory(stored)
    /\ historyPhase' = "loaded"
    /\ UNCHANGED <<globeVars, ratingVars, appVars, stored>>

\* the render that setItems of the effect asked for
HistoryCommit ==
    /\ historyPhase = "loaded"
    /\ historyPhase' = IF RenderHistory(items) = "throws" THEN "crashed"
                       ELSE "shown"
    /\ UNCHANGED <<globeVars, ratingVars, appVars, stored, items>>

\* the page is left; the next visit renders History anew
HistoryUnmount ==
    /\ historyPhase = "shown"
    /\ historyPhase' = "idle"
    /\ items' = Array(<<>>)
    /\ UNCHANGED <<globeVars, ratingVars, appVars, stored>>

NextHistory == HistoryMount \/ HistoryCommit \/ HistoryUnmount

SpecHistory == InitHistory /\ [][NextHistory]_vars

(* C30: whatever is stored under prompt_history, the History component
   holds an array in items once its effect has run, and its render does
   not throw. *)
C30_HistoryEndsWithArray ==
    historyPhase \in {"loaded", "shown", "crashed"} =>
        /\ items.type = "array"
        /\ RenderHistory(items) # "throws"
        /\ historyPhase # "crashed"


(***************************************************************************)
(* The Rating stars, frontend/src/Rating.jsx.                              *)
(*                                                                         *)
(* avg is display only: no guard and no request reads it, and the GET of   *)
(* the average writes nothing else, so both are left out.                  *)
(***************************************************************************)

\* the stars, Rating.jsx 73
Stars == 1..5

Digits == <<"1", "2", "3", "4", "5">>

\* value.toString(), Rating.jsx 58
toString(n) == Digits[n]

\* parseInt(savedRating), Rating.jsx 23
parseInt(str) == CHOOSE n \in Stars : Digits[n] = str

MaxMounts == 3

MaxVotes == 3

\* Rating.jsx 57-58, with only the first setItem
persistVoteRatedOnly(votes, id, value) ==
    [votes EXCEPT ![id] = [rated |-> "true", rating |-> votes[id].rating]]

\* Rating.jsx 57-58: setItem(rated_<id>, "true"), setItem(rating_<id>, value)
persistVote(votes, id, value) ==
    [votes EXCEPT ![id] = [rated |-> "true", rating |-> toString(value)]]

\* Rating.jsx 13-25: the effect for the prop id, given the state before it;
\* it yields the pair <<hasVoted, rating>>
detectVote(id, voted, stars) ==
    IF id = "default" THEN <<voted, stars>>
    ELSE IF localVotes[id].rated # ""
         THEN <<TRUE, IF localVotes[id].rating # ""
                      THEN parseInt(localVotes[id].rating) ELSE stars>>
         ELSE <<voted, stars>>

\* whether the component that sent q is the one rendered now
Owner(q) == ratingMounted /\ instance = q.owner

\* the POST /feedback requests sent so far
VotesSent ==
    LET RECURSIVE Sum(_)
        Sum(S) == IF S = {} THEN 0
                  ELSE LET p == CHOOSE x \in S : TRUE
                       IN  feedback[p] + Sum(S \ {p})
    IN  Sum(PromptIds) + Cardinality(posts) + alerts

InitRating ==
    /\ GlobeIdle
    /\ HistoryIdle
    /\ RatingIdle
    /\ AppIdle

\* Rating rendered for the first time: useState defaults, then the effect
RatingMount(id) ==
    /\ ~ratingMounted
    /\ instance < MaxMounts
    /\ ratingMounted' = TRUE
    /\ instance' = instance + 1
    /\ promptId' = id
    /\ hasVoted' = detectVote(id, FALSE, 0)[1]
    /\ rating' = detectVote(id, FALSE, 0)[2]
    /\ voteLoading' = FALSE
    /\ UNCHANGED <<globeVars, historyVars, appVars, localVotes, posts, feedback,
                   alerts>>

\* the parent renders Rating with another promptId: the state is kept and
\* the effect keyed on [promptId, API_URL] runs again
PromptChange(id) ==
    /\ ratingMounted
    /\ id # promptId
    /\ promptId' = id
    /\ hasVoted' = detectVote(id, hasVoted, rating)[1]
    /\ rating' = detectVote(id, hasVoted, rating)[2]
    /\ UNCHANGED <<globeVars, historyVars, appVars, voteLoading, ratingMounted,
                   instance, localVotes, posts, feedback, alerts>>

\* Rating.jsx 41-47: a click on star `value`, up to the await
handleRate(value) ==
    /\ ratingMounted
    /\ ~(hasVoted \/ voteLoading)
    /\ VotesSent < MaxVotes
    /\ voteLoading' = TRUE
    /\ posts' = posts \cup {[owner |-> instance, promptId |-> promptId,
                             value |-> value]}
    /\ UNCHANGED <<globeVars, historyVars, appVars, promptId, rating, hasVoted,
                   ratingMounted, instance, localVotes, feedback, alerts>>

\* Rating.jsx 52-65: the POST is answered with 2xx.  The setters do nothing
\* when the component that sent it is gone.
PostSucceeds(q) ==
    /\ q \in posts
    /\ posts' = posts \ {q}
    /\ feedback' = [feedback EXCEPT ![q.promptId] = @ + 1]
    /\ localVotes' = persistVote(localVotes, q.promptId, q.value)
    /\ IF Owner(q)
       THEN /\ rating' = q.value
            /\ hasVoted' = TRUE
            /\ voteLoading' = FALSE
       ELSE UNCHANGED <<rating, hasVoted, voteLoading>>
    /\ UNCHANGED <<globeVars, historyVars, appVars, promptId, ratingMounted, instance,
                   alerts>>

\* Rating.jsx 61-65: the POST is rejected (network error, 4xx, 5xx)
PostFails(q) ==
    /\ q \in posts
    /\ posts' = posts \ {q}
    /\ voteLoading' = IF Owner(q) THEN FALSE ELSE voteLoading
    /\ alerts' = alerts + 1
    /\ UNCHANGED <<globeVars, historyVars, appVars, promptId, rating, hasVoted,
                   ratingMounted, instance, localVotes, feedback>>

\* the parent stops rendering Rating (App: res is set to null)
RatingUnmount ==
    /\ ratingMounted
    /\ ratingMounted' = FALSE
    /\ rating' = 0
    /\ hasVoted' = FALSE
    /\ voteLoading' = FALSE
    /\ UNCHANGED <<globeVars, historyVars, appVars, promptId, instance, localVotes,
                   posts, feedback, alerts>>

NextRating ==
    \/ \E id \in PromptIds : RatingMount(id)
    \/ \E id \in PromptIds : PromptChange(id)
    \/ \E value \in Stars : handleRate(value)
    \/ \E q \in posts : PostSucceeds(q)
    \/ \E q \in posts : PostFails(q)
    \/ RatingUnmount

SpecRating == InitRating /\ [][NextRating]_vars


(* C28: when the POST of a rating is rejected, rating, hasVoted and the
   rated_/rating_ keys of localStorage stay as they were and the loading
   flag of the component that sent it is false again; when it is answered,
   both keys of its prompt id are written and the component has voted. *)
C28_FailedVoteChangesNothing ==
    [][\A q \in posts :
          posts' = posts \ {q} =>
              IF feedback' = feedback
              THEN /\ rating' = rating
                   /\ hasVoted' = hasVoted
                   /\ localVotes' = localVotes
                   /\ Owner(q) => ~voteLoading'
              ELSE /\ localVotes'[q.promptId].rated = "true"
                   /\ localVotes'[q.promptId].rating = toString(q.value)
                   /\ \A id \in PromptIds \ {q.promptId} :
                         localVotes'[id] = localVotes[id]
                   /\ Owner(q) => hasVoted' /\ rating' = q.value
                                            /\ ~voteLoading']_vars

\* a first vote of four stars was rejected, the second try was recorded
C28_Witness ==
    /\ ratingMounted
    /\ instance = 1
    /\ promptId = "id1"
    /\ alerts = 1
    /\ posts = {}
    /\ hasVoted
    /\ rating = 4
    /\ localVotes["id1"] = [rated |-> "true", rating |-> "4"]
    /\ feedback["id1"] = 1

(* C23: once a vote for a prompt id was recorded by the server, no further
   POST /feedback is sent for that id, whatever is clicked and whenever
   Rating is mounted again; the id "default" included. *)
C23_NoSecondVote ==
    [][\A q \in posts' \ posts : feedback[q.promptId] = 0]_vars

(* C29: a rendered Rating has hasVoted set only when localStorage holds a
   vote for its current promptId, and the stars it lights are those of that
   vote; also after the promptId prop changed. *)
C29_ShownVoteIsOfCurrentPrompt ==
    ratingMounted =>
        /\ hasVoted => localVotes[promptId].rated = "true"
        /\ rating # 0 => localVotes[promptId].rating = toString(rating)


(***************************************************************************)
(* The App: handleRefine and handleEnhance.                                *)
(*                                                                         *)
(* "cancel" is the App of part_003 10-611, which keeps an AbortController  *)
(* per kind of request and saves the history; "plain" is                   *)
(* frontend/src/App.jsx 4-45, which has neither, nor an enhance step.      *)
(* A handler runs to its await in one step.  abort() rejects the pending   *)
(* axios promise at once, so the catch and finally of the aborted call run *)
(* as microtasks right after the handler that called abort() and before    *)
(* any other event: they belong to the same step.                          *)
(***************************************************************************)

MaxRefines == 3

MaxEnhances == 2

\* what the user may have typed: around the limits 10, 2000 and 5000,
\* with and without a blank in front
Texts ==
    {Text(0, "p", 9), Text(1, "p", 9), Text(0, "p", 10), Text(0, "q", 2000),
     Text(0, "q", 2001), Text(1, "q", 5000), Text(0, "q", 5001)}

TooShort == "Please enter at least 10 characters"

TooLong(v) ==
    IF v = "cancel" THEN "Max 5000 characters"
    ELSE "Prompt must be less than 2000 characters"

RefineFailed == "Something went wrong. Please try again."

EnhanceFailed == "Enhancement failed. Please try again."

\* the validation of handleRefine applied to the text as typed
validateUntrimmed(v, str) ==
    IF length(str) < 10 THEN TooShort
    ELSE IF length(str) > (IF v = "cancel" THEN 5000 ELSE 2000) THEN TooLong(v)
    ELSE NoError

\* part_003 138-146, App.jsx 15-24: the message set, NoError when valid
validate(v, str) ==
    IF length(trim(str)) < 10 THEN TooShort
    ELSE IF length(trim(str)) > (IF v = "cancel" THEN 5000 ELSE 2000)
         THEN TooLong(v)
    ELSE NoError

\* Array.prototype.slice(0, n)
slice(seq, n) == SubSeq(seq, 1, IF Len(seq) < n THEN Len(seq) ELSE n)

\* part_003 168-182 keeping every entry
saveHistoryUnbounded(v, entry) ==
    CASE v.type \in {"absent", "blank", "notext"} -> Array(<<entry>>)
      [] v.type = "array" -> Array(<<entry>> \o v.items)
      [] v.type \in {"text", "mixed"} ->
            [type |-> "mixed", items |-> <<entry>> \o v.items]
      [] OTHER -> v

\* part_003 168-182: the value of prompt_history after the save.  Text that
\* does not parse, and null, a number or an object (which cannot be
\* spread), throw into the inner catch and leave the key as it is; a
\* string is spread into its characters ("mixed": the entries in items,
\* then characters).
saveHistory(v, entry) ==
    CASE v.type \in {"absent", "blank", "notext"} -> Array(<<entry>>)
      [] v.type = "array" -> Array(slice(<<entry>> \o v.items, 5))
      [] v.type \in {"text", "mixed"} ->
            [type |-> "mixed", items |-> slice(<<entry>> \o v.items, 5)]
      [] OTHER -> v

\* the answer of POST /refine to request q
Response(q) == [after |-> "refined " \o q.text.word, from |-> q.id]

\* the answer of POST /enhance to request q
EnhanceResponse(q) ==
    [after |-> "enhanced " \o q.refined, refined |-> q.refined, from |-> q.id]

StoredFive ==
    <<Entry(Text(0, "p", 12), "after p"), Entry(Text(0, "q", 12), "after q"),
      Entry(Text(0, "r", 12), "after r"), Entry(Text(0, "q", 12), "after q"),
      Entry(Text(0, "p", 12), "after p")>>

\* prompt_history when the page is opened: never written, or written by
\* earlier visits
InitialHistories ==
    {Absent, Array(<<>>), Array(SubSeq(StoredFive, 1, 4)), Array(StoredFive)}

InitApp ==
    /\ GlobeIdle
    /\ RatingIdle
    /\ items = Array(<<>>)
    /\ historyPhase = "idle"
    /\ stored \in InitialHistories
    /\ appVariant \in {"cancel", "plain"}
    /\ AppFresh

\* part_003 329-332, App.jsx 89-92: the user edits the prompt
onChange(str) ==
    /\ str # text
    /\ text' = str
    /\ refineError' = NoError
    /\ UNCHANGED <<globeVars, historyVars, ratingVars, appVariant, res,
                   enhanced, loading, enhancing, enhanceError,
                   refineControllerRef, enhanceControllerRef, refines,
                   enhances, nextId, nextEnhanceId>>

\* part_003 135-164 (with 185-192 of the call it aborts), App.jsx 14-32
handleRefine ==
    LET trimmed == trim(text)
        problem == validate(appVariant, text)
        previous == {q \in refines : q.id = refineControllerRef}
    IN  IF problem # NoError
        THEN /\ refineError' = problem
             /\ UNCHANGED <<globeVars, historyVars, ratingVars, appVariant,
                            text, res, enhanced, loading, enhancing,
                            enhanceError, refineControllerRef,
                            enhanceControllerRef, refines, enhances, nextId,
                            nextEnhanceId>>
        ELSE /\ nextId <= MaxRefines
             /\ nextId' = nextId + 1
             /\ refines' = (refines \ previous)
                               \cup {[id |-> nextId, text |-> trimmed]}
             /\ res' = NoRes
             /\ refineError' = NoError
             /\ IF appVariant = "cancel"
                THEN /\ enhanced' = NoEnhanced
                     /\ enhanceError' = NoError
                     /\ loading' = (previous = {})
                     /\ refineControllerRef' =
                            IF previous = {} THEN nextId ELSE 0
                ELSE /\ loading' = TRUE
                     /\ UNCHANGED <<enhanced, enhanceError,
                                    refineControllerRef>>
             /\ UNCHANGED <<globeVars, historyVars, ratingVars, appVariant,
                            text, enhancing, enhanceControllerRef, enhances,
                            nextEnhanceId>>

\* part_003 166-192, App.jsx 33-44: POST /refine is answered with 2xx
RefineSucceeds(q) ==
    /\ q \in refines
    /\ refines' = refines \ {q}
    /\ res' = Response(q)
    /\ loading' = FALSE
    /\ IF appVariant = "cancel"
       THEN /\ stored' = saveHistory(stored, Entry(q.text, Response(q).after))
            /\ refineControllerRef' = 0
       ELSE UNCHANGED <<stored, refineControllerRef>>
    /\ UNCHANGED <<globeVars, items, historyPhase, ratingVars, appVariant,
                   text, enhanced, enhancing, refineError, enhanceError,
                   enhanceControllerRef, enhances, nextId, nextEnhanceId>>

\* part_003 185-192, App.jsx 38-44: POST /refine is rejected
RefineFails(q) ==
    /\ q \in refines
    /\ refines' = refines \ {q}
    /\ refineError' = RefineFailed
    /\ loading' = FALSE
    /\ refineControllerRef' = 0
    /\ UNCHANGED <<globeVars, historyVars, ratingVars, appVariant, text, res,
                   enhanced, enhancing, enhanceError, enhanceControllerRef,
                   enhances, nextId, nextEnhanceId>>

\* part_003 196-222 (with 226-233 of the call it aborts)
handleEnhance ==
    LET previous == {q \in enhances : q.id = enhanceControllerRef}
    IN  /\ appVariant = "cancel"
        /\ res.after # ""
        /\ nextEnhanceId <= MaxEnhances
        /\ nextEnhanceId' = nextEnhanceId + 1
        /\ enhances' = (enhances \ previous)
                           \cup {[id |-> nextEnhanceId, refined |-> res.after]}
        /\ enhanced' = NoEnhanced
        /\ enhanceError' = NoError
        /\ enhancing' = (previous = {})
        /\ enhanceControllerRef' = IF previous = {} THEN nextEnhanceId ELSE 0
        /\ UNCHANGED <<globeVars, historyVars, ratingVars, appVariant, text,
                       res, loading, refineError, refineControllerRef,
                       refines, nextId>>

\* part_003 224-233: POST /enhance is answered with 2xx
EnhanceSucceeds(q) ==
    /\ q \in enhances
    /\ enhances' = enhances \ {q}
    /\ enhanced' = EnhanceResponse(q)
    /\ enhancing' = FALSE
    /\ enhanceControllerRef' = 0
    /\ UNCHANGED <<globeVars, historyVars, ratingVars, appVariant, text, res,
                   loading, refineError, enhanceError, refineControllerRef,
                   refines, nextId, nextEnhanceId>>

\* part_003 226-233: POST /enhance is rejected
EnhanceFails(q) ==
    /\ q \in enhances
    /\ enhances' = enhances \ {q}
    /\ enhanceError' = EnhanceFailed
    /\ enhancing' = FALSE
    /\ enhanceControllerRef' = 0
    /\ UNCHANGED <<globeVars, historyVars, ratingVars, appVariant, text, res,
                   enhanced, loading, refineError, refineControllerRef,
                   refines, nextId, nextEnhanceId>>

NextApp ==
    \/ \E str \in Texts : onChange(str)
    \/ handleRefine
    \/ \E q \in refines : RefineSucceeds(q)
    \/ \E q \in refines : RefineFails(q)
    \/ handleEnhance
    \/ \E q \in enhances : EnhanceSucceeds(q)
    \/ \E q \in enhances : EnhanceFails(q)

SpecApp == InitApp /\ [][NextApp]_vars


\* the id of the POST /refine started last
Newest == nextId - 1

(* C22: starting from an absent or valid stored history, prompt_history
   never holds more than five entries, and every successful refine of the
   App that saves the history puts its entry (before = the trimmed input,
   after = response.after) first, followed by the earlier entries in
   their order, the oldest dropped when there were five. *)
C22_HistoryNewestFirstAtMostFive ==
    /\ [](stored.type \in {"absent", "array"} /\ Len(stored.items) <= 5)
    /\ [][\A q \in refines :
             (appVariant = "cancel" /\ refines' = refines \ {q}
                  /\ res'.from = q.id) =>
                 /\ stored'.type = "array"
                 /\ Len(stored'.items) =
                        (IF Len(stored.items) = 5 THEN 5
                         ELSE Len(stored.items) + 1)
                 /\ stored'.items[1] = Entry(q.text, res'.after)
                 /\ q.text.spaces = 0
                 /\ \A i \in 2..Len(stored'.items) :
                        stored'.items[i] = stored.items[i - 1]]_vars

\* two refines succeeded on a history of five: the newer one is first, the
\* older second, and the two oldest of the five are gone
C22_Witness ==
    /\ appVariant = "cancel"
    /\ stored = Array(<<Entry(Text(0, "q", 5000), "refined q"),
                        Entry(Text(0, "p", 10), "refined p")>>
                      \o SubSeq(StoredFive, 1, 3))
    /\ res = [after |-> "refined q", from |-> 2]
    /\ refines = {}

(* C27: handleRefine called with a text whose trimmed length is below 10
   or above the maximum (5000 with cancellation, 2000 without) sends no
   request, sets the refine error to the message of that limit and leaves
   res, enhanced, loading and the stored history as they are. *)
C27_InvalidInputHasNoSideEffect ==
    [][(handleRefine /\ (\/ text.chars < 10
                         \/ text.chars > (IF appVariant = "cancel"
                                          THEN 5000 ELSE 2000))) =>
          /\ refines' = refines
          /\ nextId' = nextId
          /\ refineError' = (IF text.chars < 10 THEN TooShort
                             ELSE TooLong(appVariant))
          /\ UNCHANGED <<res, enhanced, loading, stored,
                         refineControllerRef>>]_vars

\* after a refine was answered, nine characters behind a blank (ten as
\* typed) were submitted and refused, the result still shown
C27_Witness ==
    /\ text = Text(1, "p", 9)
    /\ refineError = TooShort
    /\ res = [after |-> "refined p", from |-> 1]
    /\ stored = Array(<<Entry(Text(0, "p", 10), "refined p")>>)
    /\ refines = {}
    /\ ~loading

(* C24: with cancellation, while the refine request started last is in
   flight, loading is true and refineControllerRef.current is the
   controller of that request. *)
C24_NewestKeepsLoadingAndController ==
    (appVariant = "cancel" /\ \E q \in refines : q.id = Newest) =>
        loading /\ refineControllerRef = Newest

(* C25: the answer or failure of a refine request that a later
   handleRefine has superseded writes neither res nor refineError and
   does not extend the history. *)
C25_SupersededNeverShown ==
    [][\A q \in refines :
          (appVariant = "cancel" /\ q.id < Newest /\ refines' = refines \ {q})
              => /\ res' = res
                 /\ refineError' = refineError
                 /\ stored' = stored]_vars

(* C26: a shown enhanced result belongs to the shown refined result: res
   is not null and the enhance request was sent with refined = res.after. *)
C26_EnhancedBelongsToRes ==
    enhanced # NoEnhanced =>
        res # NoRes /\ enhanced.refined = res.after

====
